---- MODULE Spec2Model ----
(***************************************************************************)
(* wslink: the aiohttp WebSocket server protocol                           *)
(* (python/src/wslink/aiohttp_websocket_server_protocol.py).               *)
(*                                                                         *)
(* One asyncio event loop runs every coroutine; a coroutine runs without   *)
(* interruption from one await to the next.  Each action below is one such *)
(* run-to-next-await segment of a coroutine, or one input of the           *)
(* environment (a peer connecting, sending a frame, closing; a timer       *)
(* elapsing).                                                              *)
(***************************************************************************)
EXTENDS Integers, Sequences, FiniteSets, TLC

\* ------------------------------------------------------------------ bounds
\* Connections the environment opens over the server's life.
MaxConnects == 2

\* server_config["ws"]: the routes, in the order of the dict (the order
\* _stop_server iterates in); create_wslink_server puts one WslinkHandler on
\* each.
HandlerSeq == <<"h1", "h2">>
Handlers == {HandlerSeq[i] : i \in 1..Len(HandlerSeq)}

\* Client ids are fresh uuids: the n-th accepted connection is client n.
Clients == 1..MaxConnects

\* One timer handle per schedule_coroutine call: one at startup and at most
\* one per session that ends.
TimerIds == 1..(MaxConnects + 1)
\* A run of _stop_server: started by timer t (id t) or by
\* AiohttpWslinkServer.stop (id 0).
StopIds == 0..(MaxConnects + 1)

VARIABLES
  budget,         \* inputs the environment may still give
  srv,            \* "created" | "serving" | "stopped" (the running future)
  shutdown_task,  \* app["state"]["shutdown_task"]: 0 (None) or a timer id
  timers,         \* timer id -> "unused" | "pending" | "cancelled" | "fired"
  stops,          \* stop id -> position of that run of _stop_server
  connections,    \* handler -> client ids in the connection table, in order
  nextClient,     \* the id the next accepted connection gets
  hOf,            \* client -> handler whose route it connected to
  pc,             \* client -> position of its handleWsRequest coroutine
  ws,             \* client -> state of its WebSocketResponse
  functionMap,    \* handler -> the URIs in self.functionMap
  initCalls,      \* handler -> calls of init() on its server protocol object
  attachmentsReceived,   \* handler -> set of <<key, payload>> entries
  attachmentsRecvQueue,  \* handler -> keys awaiting their binary frame
  pm,             \* the publish manager (pub.publishManager)
  tasks,          \* scheduled and running publish deliveries
  sact,           \* client -> the send its onMessage is suspended in
  wire,           \* client -> frames written to its transport, in order
  reqs,           \* client -> the requests (frames with id) it sent, in order
  sessionQueue,   \* client -> keys it declared, less one per binary it sent
  passed,         \* client -> the arguments its method call in progress got
  pubs            \* the publishes issued so far, in order

vars == <<budget, srv, shutdown_task, timers, stops, connections, nextClient,
          hOf, pc, ws, functionMap, initCalls, attachmentsReceived,
          attachmentsRecvQueue, pm, tasks, sact, wire, reqs, sessionQueue, passed,
          pubs>>

lifeVars == <<srv, shutdown_task, timers, stops>>
connVars == <<connections, nextClient, hOf, functionMap, initCalls>>
inVars == <<attachmentsReceived, attachmentsRecvQueue, sessionQueue, passed>>
pubVars == <<pm, tasks, pubs>>
outVars == <<sact, wire, reqs>>

Range(s) == {s[i] : i \in 1..Len(s)}

Remove(s, x) == SelectSeq(s, LAMBDA y : y # x)

NoStop == [pc |-> "none", hi |-> 0, keys |-> <<>>]

\* ------------------------------------------------------------- wire data

\* Error codes of wslink.publish (their numbers are set outside this file).
AUTHENTICATION_ERROR == "AUTHENTICATION_ERROR"
METHOD_NOT_FOUND == "METHOD_NOT_FOUND"
EXCEPTION_ERROR == "EXCEPTION_ERROR"
RESULT_SERIALIZE_ERROR == "RESULT_SERIALIZE_ERROR"

\* The secret of the server protocol, and the URIs its tagged methods expose.
Secret == "S"
Uris == {"echo"}

\* A JSON value of an inbound request: a string (s), a mapping of names to
\* strings (d), a list of values or a mapping whose values are `kids` (in
\* the order of the text); and the bytes b that take the place of a string.
Str(x) == [t |-> "str", s |-> x, d |-> {}, kids |-> <<>>, b |-> 0]
Dict(pairs) == [t |-> "dict", s |-> "", d |-> pairs, kids |-> <<>>, b |-> 0]
List(kids) == [t |-> "list", s |-> "", d |-> {}, kids |-> kids, b |-> 0]
Map(kids) == [t |-> "dict", s |-> "", d |-> {}, kids |-> kids, b |-> 0]
Bytes(b) == [t |-> "bytes", s |-> "", d |-> {}, kids |-> <<>>, b |-> b]

\* No method call in progress, and a call with its arguments.
NoCall == [on |-> FALSE, args |-> List(<<>>), kwargs |-> Map(<<>>)]
Call(args, kwargs) == [on |-> TRUE, args |-> args, kwargs |-> kwargs]

\* Python truth value of a JSON value.
Truthy(v) == IF v.t = "dict" THEN v.d # {} ELSE v.s # ""

\* `name in v` and v[name] for a mapping v.
HasField(v, name) == \E e \in v.d : e[1] = name
Field(v, name) == (CHOOSE e \in v.d : e[1] = name)[2]

\* An outbound frame.  t: "hdr" (attachment header), "bin" (binary frame) or
\* "json" (reply or publish); key: the attachment of a header or binary;
\* kind: whether the wrapper holds "result" or "error"; clientID and keys:
\* the result's clientID (<<"c", client id>>) and the placeholder keys that
\* occur in the serialized text.
NoId == <<>>
BlankFrame ==
  [t |-> "json", key |-> -1, id |-> NoId, kind |-> "result", code |-> "",
   message |-> "", clientID |-> <<>>, keys |-> {}]
HeaderFrame(k) == [BlankFrame EXCEPT !.t = "hdr", !.key = k, !.kind = ""]
BinaryFrame(k) == [BlankFrame EXCEPT !.t = "bin", !.key = k, !.kind = ""]
ResultFrame(rpcid, cid, ks) ==
  [BlankFrame EXCEPT !.id = rpcid, !.clientID = cid, !.keys = ks]
ErrorFrame(rpcid, code, message) ==
  [BlankFrame EXCEPT !.id = rpcid, !.kind = "error", !.code = code,
                     !.message = message]

\* A send in progress (an activation of sendWrappedMessage or
\* sendWrappedError).  wsl: the `websockets` list; json: the encoded message;
\* snap: what is left of the attachment map to scan; key: the key whose
\* header/binary pairs are being sent; found: found_keys; stage and i: the
\* next transport write is frame `stage` to wsl[i].
NoSend ==
  [wsl |-> <<>>, json |-> BlankFrame, snap |-> <<>>, key |-> -1, found |-> {},
   stage |-> "none", i |-> 0]

RECURSIVE SortedSeq(_)
SortedSeq(S) ==
  IF S = {} THEN <<>>
  ELSE LET m == CHOOSE x \in S : \A y \in S : x <= y
       IN <<m>> \o SortedSeq(S \ {m})

\* --------------------------------------------------------- publish manager

\* registerAttachment / unregisterAttachment: the reference count of a key.
registerAttachment(m, k) ==
  [m EXCEPT !.attachmentRefCounts[k] = @ + 1]
unregisterAttachment(m, k) ==
  [m EXCEPT !.attachmentRefCounts[k] = @ - 1]

\* freeAttachments(keys): drop the keys whose count is back to zero.
freeAttachments(m, keys) ==
  [m EXCEPT !.attachmentMap =
     @ \ {k \in keys : m.attachmentRefCounts[k] = 0}]

\* ------------------------------------------------------------------ sends

\* A websockets list that ignores client_id (every send is a broadcast).
websockets_all(h, client_id) == connections[h]

\* sendWrappedMessage, lines 402-411: the websockets list, a look at the
\* attachment map, found_keys = [].
websockets(h, client_id) ==
  IF client_id # 0 THEN <<client_id>> ELSE connections[h]

StartMessage(h, client_id, frame, m) ==
  [NoSend EXCEPT !.wsl = websockets(h, client_id), !.json = frame,
                 !.snap = SortedSeq(m.attachmentMap), !.stage = "scan"]

\* sendWrappedError, lines 440-457.
StartError(h, client_id, frame) ==
  [NoSend EXCEPT !.wsl = websockets(h, client_id), !.json = frame,
                 !.stage = "json", !.i = 1]

\* sendWrappedMessage, lines 411-437, from where the send stands to its next
\* transport write: the scan of the attachment map for keys that occur in
\* the encoded message, registerAttachment before the first header of a key,
\* unregisterAttachment after its last binary, freeAttachments after the
\* scan.  Returns the send (stage "done" when nothing is left to write) and
\* the publish manager.
RECURSIVE Advance(_, _)
Advance(a, m) ==
  CASE a.stage = "scan" /\ a.snap = <<>> ->
         Advance([a EXCEPT !.stage = "json", !.i = 1],
                 freeAttachments(m, a.found))
    [] a.stage = "scan" /\ a.snap # <<>> ->
         LET k == Head(a.snap) IN
           IF k \in a.json.keys
             THEN Advance([a EXCEPT !.snap = Tail(@), !.key = k,
                                    !.found = @ \cup {k},
                                    !.stage = "hdr", !.i = 1],
                          registerAttachment(m, k))
             ELSE Advance([a EXCEPT !.snap = Tail(@)], m)
    [] a.stage = "hdr" /\ a.i > Len(a.wsl) ->
         Advance([a EXCEPT !.stage = "scan"], unregisterAttachment(m, a.key))
    [] a.stage = "json" /\ a.i > Len(a.wsl) ->
         [a |-> [a EXCEPT !.stage = "done"], m |-> m]
    [] OTHER -> [a |-> a, m |-> m]

\* The frame a send writes next, and where the send stands after the write.
NextFrame(a) ==
  CASE a.stage = "hdr" -> HeaderFrame(a.key)
    [] a.stage = "bin" -> BinaryFrame(a.key)
    [] OTHER -> a.json

AfterWrite(a) ==
  CASE a.stage = "hdr" -> [a EXCEPT !.stage = "bin"]
    [] a.stage = "bin" -> [a EXCEPT !.stage = "hdr", !.i = @ + 1]
    [] a.stage = "json" /\ a.i = Len(a.wsl) -> [a EXCEPT !.stage = "done"]
    [] OTHER -> [a EXCEPT !.i = @ + 1]

\* ws.send_str / ws.send_bytes: writes on an open transport; raises on one
\* that is not prepared yet or is closed.
CanWrite(c) == ws[c] = "open"

\* One run of a send from where it stands to the await of its next transport
\* write (or to its end): the send, the publish manager and the wire after
\* it.  Stage "raised": the write raised and the exception leaves the send.
RunSend(a, m, w) ==
  LET n == Advance(a, m) IN
    IF n.a.stage = "done" THEN [a |-> n.a, m |-> n.m, w |-> w]
    ELSE LET c == n.a.wsl[n.a.i] IN
      IF CanWrite(c)
        THEN [a |-> AfterWrite(n.a), m |-> n.m,
              w |-> [w EXCEPT ![c] = Append(@, NextFrame(n.a))]]
        ELSE [a |-> [n.a EXCEPT !.stage = "raised"], m |-> n.m, w |-> w]

\* ------------------------------------------------------------ server life

\* The handle schedule_coroutine returns: the next unused timer.
FreshTimer ==
  CHOOSE t \in TimerIds :
    timers[t] = "unused" /\ \A u \in TimerIds : u < t => timers[u] # "unused"

\* schedule_coroutine(delay, _stop_server, app): a new pending timer.
schedule_coroutine(tm) == [tm EXCEPT ![FreshTimer] = "pending"]

\* handle.cancel(): a timer that has not fired yet never will.
cancel(tm, t) == [tm EXCEPT ![t] = IF @ = "pending" THEN "cancelled" ELSE @]

\* _schedule_shutdown: arm a new timer and store its handle in the slot (the
\* handle that was in the slot is dropped, not cancelled).
_schedule_shutdown ==
  /\ timers' = schedule_coroutine(timers)
  /\ shutdown_task' = FreshTimer

\* A startup hook that arms no idle timer.
_on_startup_unarmed ==
  /\ srv = "created"
  /\ srv' = "serving"
  /\ UNCHANGED <<timers, shutdown_task>>
  /\ UNCHANGED <<budget, stops, connVars, pc, ws, inVars, pubVars, outVars>>

\* start() and _on_startup: the running future and the runner are created,
\* the startup hook schedules the idle shutdown, the site starts listening.
_on_startup ==
  /\ srv = "created"
  /\ srv' = "serving"
  /\ _schedule_shutdown
  /\ UNCHANGED <<budget, stops, connVars, pc, ws, inVars, pubVars, outVars>>

\* handleWsRequest, lines 172-185: up to `await current_ws.prepare(request)`.
Connect(h) ==
  /\ srv = "serving"
  /\ budget.connects > 0
  /\ budget' = [budget EXCEPT !.connects = @ - 1]
  /\ LET c == nextClient IN
       /\ nextClient' = c + 1
       /\ hOf' = [hOf EXCEPT ![c] = h]
       /\ connections' = [connections EXCEPT ![h] = Append(@, c)]
       /\ ws' = [ws EXCEPT ![c] = "created"]
       /\ pc' = [pc EXCEPT ![c] = "prepare"]
  /\ IF shutdown_task # 0
       THEN /\ timers' = cancel(timers, shutdown_task)
            /\ shutdown_task' = 0
       ELSE UNCHANGED <<timers, shutdown_task>>
  /\ UNCHANGED <<srv, stops, functionMap, initCalls, inVars, pubVars, outVars>>

\* prepare() completes the upgrade; onConnect (lines 204-226, no await in
\* it) calls init() on the protocol objects, fills the function map and
\* registers the handler with the publish manager; the read loop starts
\* waiting for a frame.
PrepareOk(c) ==
  /\ srv = "serving"
  /\ pc[c] = "prepare"
  /\ ws[c] = "created"
  /\ ws' = [ws EXCEPT ![c] = "open"]
  /\ pc' = [pc EXCEPT ![c] = "read"]
  /\ initCalls' = [initCalls EXCEPT ![hOf[c]] = @ + 1]
  /\ functionMap' = [functionMap EXCEPT ![hOf[c]] = @ \cup Uris]
  /\ pm' = [pm EXCEPT !.protocols[hOf[c]] = @ + 1]
  /\ UNCHANGED <<budget, lifeVars, connections, nextClient, hOf, inVars,
                 tasks, pubs, outVars>>

\* prepare() raises (the request is no WebSocket upgrade, or the transport
\* was closed meanwhile): the exception leaves handleWsRequest at line 185.
PrepareFail(c) ==
  /\ srv = "serving"
  /\ pc[c] = "prepare"
  /\ pc' = [pc EXCEPT ![c] = "raised"]
  /\ UNCHANGED <<budget, lifeVars, connVars, ws, inVars, pubVars, outVars>>

\* The peer closes its end of an open connection.
PeerClose(c) ==
  /\ srv = "serving"
  /\ ws[c] = "open"
  /\ ws' = [ws EXCEPT ![c] = "peer_closed"]
  /\ UNCHANGED <<budget, lifeVars, connVars, pc, inVars, pubVars, outVars>>

\* handleWsRequest, lines 189-202: the read loop sees the close and ends;
\* onClose, the removal from the table and the re-arming follow with no
\* await that suspends.
SessionEnd(c) ==
  /\ srv = "serving"
  /\ pc[c] = "read"
  /\ ws[c] \in {"peer_closed", "GOING_AWAY"}
  /\ pc' = [pc EXCEPT ![c] = "returned"]
  /\ pm' = [pm EXCEPT !.protocols[hOf[c]] = @ - 1]
  /\ connections' = [connections EXCEPT ![hOf[c]] = Remove(@, c)]
  /\ IF connections'[hOf[c]] = <<>>
       THEN _schedule_shutdown
       ELSE UNCHANGED <<timers, shutdown_task>>
  /\ UNCHANGED <<budget, srv, stops, nextClient, hOf, functionMap, initCalls,
                 ws, inVars, tasks, pubs, outVars>>

\* --------------------------------------------------------------- onMessage

\* rpcid.split(":")[0] == "system": ids are held as their ":"-separated parts.
IsSystem(rpcid) == rpcid[1] = "system"

\* A test of the hello arguments that takes any secret.
HelloAuthenticatedAnySecret(args) ==
  /\ args # <<>>
  /\ Truthy(args[1])
  /\ args[1].t = "dict"
  /\ HasField(args[1], "secret")

\* handleSystemMessage, lines 235-241: the test of the hello arguments.
HelloAuthenticated(args) ==
  /\ args # <<>>
  /\ Truthy(args[1])
  /\ args[1].t = "dict"
  /\ HasField(args[1], "secret")
  /\ Field(args[1], "secret") = Secret

\* handleSystemMessage, lines 231-262: the reply to a system message, as the
\* send to start.
SystemReply(c, rpc) ==
  IF rpc.method = "wslink.hello"
    THEN IF HelloAuthenticated(rpc.args)
           THEN StartMessage(hOf[c], c, ResultFrame(rpc.id, <<"c", c>>, {}), pm)
           ELSE StartError(hOf[c], c,
                  ErrorFrame(rpc.id, AUTHENTICATION_ERROR,
                             "Authentication failed"))
    ELSE StartError(hOf[c], c,
           ErrorFrame(rpc.id, METHOD_NOT_FOUND, "Unknown system method called"))

\* onMessage, lines 311-319.
UnregisteredReply(c, rpc) ==
  StartError(hOf[c], c,
    ErrorFrame(rpc.id, METHOD_NOT_FOUND, "Unregistered method called"))

\* The strings of the inbound alphabet that match ^wslink_bin\d+$.
Placeholders == {"wslink_bin7", "wslink_bin8"}

\* A findAttachments that leaves the key in the map (no `del`).
RECURSIVE findAttachmentsNoDel(_, _)
findAttachmentsNoDel(o, received) ==
  CASE o.t = "str" /\ o.s \in Placeholders /\ o.s \in DOMAIN received
         /\ received[o.s] # 0 ->
         [o |-> Bytes(received[o.s]), received |-> received]
    [] o.t \in {"list", "dict"} /\ o.kids # <<>> ->
         LET first == findAttachmentsNoDel(Head(o.kids), received)
             rest == findAttachmentsNoDel([o EXCEPT !.kids = Tail(@)],
                                          first.received)
         IN [o |-> [o EXCEPT !.kids = <<first.o>> \o rest.o.kids],
             received |-> rest.received]
    [] OTHER -> [o |-> o, received |-> received]

\* findAttachments, lines 324-339, on value o with the received attachments
\* `received`: a string that matches the pattern and is a key of the map
\* becomes its bytes and the key is deleted; a list and the values of a
\* mapping are gone through in order; anything else stays.  Returns the
\* value and the map after it.
RECURSIVE findAttachments(_, _)
findAttachments(o, received) ==
  CASE o.t = "str" /\ o.s \in Placeholders /\ o.s \in DOMAIN received
         /\ received[o.s] # 0 ->
         [o |-> Bytes(received[o.s]),
          received |-> [received EXCEPT ![o.s] = 0]]
    [] o.t \in {"list", "dict"} /\ o.kids # <<>> ->
         LET first == findAttachments(Head(o.kids), received)
             rest == findAttachments([o EXCEPT !.kids = Tail(@)],
                                     first.received)
         IN [o |-> [o EXCEPT !.kids = <<first.o>> \o rest.o.kids],
             received |-> rest.received]
    [] OTHER -> [o |-> o, received |-> received]

\* A send made for client c's current request (the last of rq[c]) ran up
\* to its next await.  Inside the try blocks of lines 322-380 a write that
\* raises is answered by sendWrappedError (line 356, then line 369), up to
\* `retries` times; an exception that is not caught leaves onMessage, the
\* read loop and handleWsRequest.
Settle(c, rq, r, retries) ==
  LET h == hOf[c]
      n == Len(rq[c])
      err == ErrorFrame(rq[c][n].id, EXCEPTION_ERROR, "Exception raised")
      e1 == IF r.a.stage = "raised" /\ retries >= 1
              THEN RunSend(StartError(h, c, err), r.m, r.w) ELSE r
      e2 == IF e1.a.stage = "raised" /\ retries >= 2
              THEN RunSend(StartError(h, c, err), e1.m, e1.w) ELSE e1
  IN /\ pm' = e2.m
     /\ wire' = e2.w
     /\ CASE e2.a.stage = "done" ->
               /\ pc' = [pc EXCEPT ![c] = "read"]
               /\ sact' = [sact EXCEPT ![c] = NoSend]
               /\ reqs' = [rq EXCEPT ![c][n].end = "returned"]
          [] e2.a.stage = "raised" ->
               /\ pc' = [pc EXCEPT ![c] = "raised"]
               /\ sact' = [sact EXCEPT ![c] = NoSend]
               /\ reqs' = [rq EXCEPT ![c][n].end = "raised"]
          [] OTHER ->
               /\ pc' = [pc EXCEPT ![c] = "send"]
               /\ sact' = [sact EXCEPT ![c] = e2.a]
               /\ reqs' = rq

\* onMessage, lines 268-275: a binary frame takes the key at the head of the
\* queue; with an empty queue pop(0) raises and the frame is dropped.
OnBinary(c, msg) ==
  LET h == hOf[c] IN
  /\ IF attachmentsRecvQueue[h] # <<>>
       THEN /\ attachmentsRecvQueue' =
                 [attachmentsRecvQueue EXCEPT ![h] = Tail(@)]
            /\ attachmentsReceived' =
                 [attachmentsReceived EXCEPT
                    ![h][Head(attachmentsRecvQueue[h])] = msg.bytes]
       ELSE UNCHANGED <<attachmentsRecvQueue, attachmentsReceived>>
  /\ sessionQueue' = [sessionQueue EXCEPT ![c] =
                        IF @ = <<>> THEN @ ELSE Tail(@)]
  /\ UNCHANGED <<pc, passed, pm, outVars>>

\* onMessage, lines 285-293: a frame without id; the keys of an attachment
\* header are queued.
OnNoId(c, rpc) ==
  LET h == hOf[c]
      keys == [i \in 1..Len(rpc.args) |-> rpc.args[i].s]
  IN
  /\ IF "method" \in rpc.has /\ rpc.method = "wslink.binary.attachment"
       THEN /\ attachmentsRecvQueue' =
                 [attachmentsRecvQueue EXCEPT ![h] = @ \o keys]
            /\ sessionQueue' = [sessionQueue EXCEPT ![c] = @ \o keys]
       ELSE UNCHANGED <<attachmentsRecvQueue, sessionQueue>>
  /\ UNCHANGED <<pc, attachmentsReceived, passed, pm, outVars>>

\* json.loads raises (line 283), or rpc["wslink"] / rpc["method"] raises
\* KeyError (lines 296-298): the exception leaves onMessage and the read loop.
OnMalformed(c) ==
  /\ pc' = [pc EXCEPT ![c] = "raised"]
  /\ UNCHANGED <<inVars, pm, outVars>>

\* The entry of the request log for a request just received.
Logged(c, rpc) ==
  [reqs EXCEPT ![c] = Append(@, [id |-> rpc.id, method |-> rpc.method,
                                 user |-> "none", end |-> "pending"])]

\* An unregistered-method branch without its `return`: after the error is
\* sent, self.functionMap[methodName] raises KeyError and the outer except
\* clause sends a second error.
OnUnregisteredNoReturn(c, rpc) ==
  LET r1 == RunSend(UnregisteredReply(c, rpc), pm, wire)
      r2 == IF r1.a.stage = "done"
              THEN RunSend(StartError(hOf[c], c,
                             ErrorFrame(rpc.id, EXCEPTION_ERROR,
                                        "Exception raised")),
                           r1.m, r1.w)
              ELSE r1
  IN /\ UNCHANGED inVars
     /\ Settle(c, Logged(c, rpc), r2, 0)

\* onMessage, lines 307-309: a system message is answered by
\* handleSystemMessage and onMessage returns.
OnSystem(c, rpc) ==
  /\ UNCHANGED inVars
  /\ Settle(c, Logged(c, rpc), RunSend(SystemReply(c, rpc), pm, wire), 0)

\* onMessage, lines 311-319: no such method.
OnUnregistered(c, rpc) ==
  /\ UNCHANGED inVars
  /\ Settle(c, Logged(c, rpc), RunSend(UnregisteredReply(c, rpc), pm, wire), 0)

\* onMessage, lines 321-347: the attachments are put into the arguments and
\* the method is called and awaited.
OnRegistered(c, rpc) ==
  LET kwargs == IF "kwargs" \in rpc.has THEN rpc.kwargs ELSE Map(<<>>)
      a == findAttachments(List(rpc.args), attachmentsReceived[hOf[c]])
      k == findAttachments(kwargs, a.received)
  IN
  /\ attachmentsReceived' =
       [attachmentsReceived EXCEPT ![hOf[c]] = k.received]
  /\ passed' = [passed EXCEPT ![c] = Call(a.o, k.o)]
  /\ pc' = [pc EXCEPT ![c] = "invoke"]
  /\ reqs' = Logged(c, rpc)
  /\ UNCHANGED <<attachmentsRecvQueue, sessionQueue, pm, sact, wire>>

\* onMessage (lines 264-380) for one inbound frame, up to its first await
\* that suspends.
OnMessage(c, msg) ==
  LET rpc == msg.rpc IN
  /\ srv = "serving"
  /\ pc[c] = "read"
  /\ ws[c] = "open"
  /\ budget.frames > 0
  /\ budget' = [budget EXCEPT !.frames = @ - 1]
  /\ UNCHANGED <<lifeVars, connVars, ws, tasks, pubs>>
  /\ CASE msg.type = "BINARY" -> OnBinary(c, msg)
       [] msg.type = "TEXT" /\ ~msg.valid -> OnMalformed(c)
       [] msg.type = "TEXT" /\ msg.valid /\ "id" \notin rpc.has ->
            OnNoId(c, rpc)
       [] msg.type = "TEXT" /\ msg.valid /\ "id" \in rpc.has
            /\ ~({"wslink", "method"} \subseteq rpc.has) -> OnMalformed(c)
       [] OTHER ->
            IF IsSystem(rpc.id) THEN OnSystem(c, rpc)
            ELSE IF rpc.method \notin functionMap[hOf[c]]
                   THEN OnUnregistered(c, rpc)
                   ELSE OnRegistered(c, rpc)

\* The awaited method returned `results` (line 347), in whose encoding the
\* placeholder keys `keys` occur: sendWrappedMessage, lines 348-350.
OnMethodResult(c, rq, keys) ==
  Settle(c, rq,
         RunSend(StartMessage(hOf[c], c,
                   ResultFrame(rq[c][Len(rq[c])].id, <<>>, keys), pm),
                 pm, wire), 2)

\* json.dumps raises TypeError in sendWrappedMessage, lines 388-400.
OnUnserializable(c, rq) ==
  Settle(c, rq,
         RunSend(StartError(hOf[c], c,
                   ErrorFrame(rq[c][Len(rq[c])].id, RESULT_SERIALIZE_ERROR,
                              "Method result cannot be serialized")),
                 pm, wire), 2)

\* A call of the method without the except clauses: the exception leaves
\* onMessage.
OnMethodExceptionEscapes(c, rq) ==
  /\ pc' = [pc EXCEPT ![c] = "raised"]
  /\ reqs' = [rq EXCEPT ![c][Len(rq[c])].end = "raised"]
  /\ UNCHANGED <<pm, wire, sact>>

\* The awaited method raised: the except clause of lines 351-366.
OnMethodException(c, rq) ==
  Settle(c, rq,
         RunSend(StartError(hOf[c], c,
                   ErrorFrame(rq[c][Len(rq[c])].id, EXCEPTION_ERROR,
                              "Exception raised")),
                 pm, wire), 1)

\* The awaited method (line 347) ends: it returns a result ("return"),
\* returns what json.dumps cannot encode ("unserializable"), or raises
\* ("raise"); the reply follows.
InvokeDone(c, how, keys) ==
  LET rq == [reqs EXCEPT ![c][Len(reqs[c])].user = how] IN
  /\ srv = "serving"
  /\ pc[c] = "invoke"
  /\ CASE how = "return" -> OnMethodResult(c, rq, keys)
       [] how = "unserializable" -> OnUnserializable(c, rq)
       [] OTHER -> OnMethodException(c, rq)
  /\ passed' = [passed EXCEPT ![c] = NoCall]
  /\ UNCHANGED <<budget, lifeVars, connVars, ws, attachmentsReceived,
                 attachmentsRecvQueue, sessionQueue, tasks, pubs>>

\* The await of a transport write of the reply returns: sendWrappedMessage
\* goes on (lines 426-437).
SendResume(c) ==
  /\ srv = "serving"
  /\ pc[c] = "send"
  /\ Settle(c, reqs, RunSend(sact[c], pm, wire), 2)
  /\ UNCHANGED <<budget, lifeVars, connVars, ws, inVars, tasks, pubs>>

\* ----------------------------------------------------------------- publish

\* addAttachment (lines 464-465): the publish manager stores the payload
\* under a fresh key wslink_bin<N>, with reference count 0.
addAttachment ==
  /\ srv = "serving"
  /\ \E h \in Handlers : functionMap[h] # {}
  /\ budget.attaches > 0
  /\ budget' = [budget EXCEPT !.attaches = @ - 1]
  /\ pm' = [pm EXCEPT !.attachmentMap = @ \cup {pm.attachmentId},
                      !.attachmentRefCounts[pm.attachmentId] = 0,
                      !.attachmentId = @ + 1]
  /\ UNCHANGED <<lifeVars, connVars, pc, ws, inVars, tasks, pubs, outVars>>

\* publishManager.publish(topic, data, client_id): one delivery is scheduled
\* on every registered handler, a call of its sendWrappedMessage.
Deliveries(p, client_id, keys) ==
  {[p |-> p, h |-> g, client |-> client_id,
    a |-> [NoSend EXCEPT !.stage = "scheduled",
                         !.json = ResultFrame(<<"publish", 0, p>>, <<>>, keys)]]
     : g \in {x \in Handlers : pm.protocols[x] > 0}}

\* publish (lines 459-462), called by the protocol's code with data in whose
\* encoding the keys `keys` occur: one publishManager.publish per client of
\* client_list.
publish(h, client_id, keys) ==
  LET client_list == IF client_id # 0 THEN <<client_id>> ELSE connections[h]
      p == pm.publishCount + 1
  IN
  /\ srv = "serving"
  /\ functionMap[h] # {}
  /\ budget.publishes > 0
  /\ budget' = [budget EXCEPT !.publishes = @ - 1]
  /\ pm' = [pm EXCEPT !.publishCount = p]
  /\ tasks' = tasks \cup
       UNION {Deliveries(p, client_list[i], keys) : i \in 1..Len(client_list)}
  /\ pubs' = Append(pubs, [h |-> h, client_id |-> client_id,
                           audience |-> {c \in Range(client_list) :
                                           ws[c] = "open"}])
  /\ UNCHANGED <<lifeVars, connVars, pc, ws, inVars, outVars>>

\* A delivery runs to its next await: sendWrappedMessage (lines 382-437)
\* from its start, or on from the transport write it was suspended in.  An
\* exception (self.connections[client_id] at line 403, or a write that
\* raises) ends the delivery.
DeliveryStep(t) ==
  LET a == IF t.a.stage = "scheduled"
             THEN StartMessage(t.h, t.client, t.a.json, pm)
             ELSE t.a
      r == RunSend(a, pm, wire)
  IN
  /\ srv = "serving"
  /\ t \in tasks
  /\ IF t.a.stage = "scheduled" /\ t.client # 0
          /\ t.client \notin Range(connections[t.h])
       THEN /\ tasks' = tasks \ {t}
            /\ UNCHANGED <<pm, wire>>
       ELSE /\ pm' = r.m
            /\ wire' = r.w
            /\ tasks' = IF r.a.stage \in {"done", "raised"}
                          THEN tasks \ {t}
                          ELSE (tasks \ {t}) \cup {[t EXCEPT !.a = r.a]}
  /\ UNCHANGED <<budget, lifeVars, connVars, pc, ws, inVars, pubs, sact, reqs>>

\* sendWrappedMessage (lines 382-437) called with no client_id, with content
\* in whose encoding the keys `keys` occur: the message goes to every
\* websocket that is in the handler's table at the call.  The call runs to
\* its first transport write; DeliveryStep takes it on from there.
sendWrappedMessage(h, keys) ==
  LET p == pm.publishCount + 1
      m == [pm EXCEPT !.publishCount = p]
      frame == ResultFrame(<<"publish", 0, p>>, <<>>, keys)
      r == RunSend(StartMessage(h, 0, frame, m), m, wire)
  IN
  /\ srv = "serving"
  /\ functionMap[h] # {}
  /\ budget.publishes > 0
  /\ budget' = [budget EXCEPT !.publishes = @ - 1]
  /\ pm' = r.m
  /\ wire' = r.w
  /\ tasks' = IF r.a.stage \in {"done", "raised"}
                THEN tasks
                ELSE tasks \cup {[p |-> p, h |-> h, client |-> 0, a |-> r.a]}
  /\ pubs' = Append(pubs, [h |-> h, client_id |-> 0,
                           audience |-> {c \in Range(connections[h]) :
                                           ws[c] = "open"}])
  /\ UNCHANGED <<lifeVars, connVars, pc, ws, inVars, sact, reqs>>

\* ------------------------------------------------------------ _stop_server

\* The for loops of _stop_server and disconnectClients, from handler number
\* hi with `keys` left to close: skip to the next client to close.  The key
\* list of a handler is copied when its disconnectClients starts.
RECURSIVE StopSeek(_, _)
StopSeek(hi, keys) ==
  IF keys # <<>> \/ hi > Len(HandlerSeq)
    THEN [hi |-> hi, keys |-> keys]
    ELSE IF hi = Len(HandlerSeq)
           THEN [hi |-> hi + 1, keys |-> <<>>]
           ELSE StopSeek(hi + 1, connections[HandlerSeq[hi + 1]])

\* ws.close(code=GOING_AWAY, message="Server shutdown") on client c's socket.
CloseGoingAway(w, c) ==
  [w EXCEPT ![c] = IF @ \in {"created", "open"} THEN "GOING_AWAY" ELSE @]

\* One run of _stop_server from where it stands to its next await: the
\* close of the next client (line 167), or runner.cleanup() (line 41).
StopRun(s, hi, keys) ==
  LET p == StopSeek(hi, keys) IN
    IF p.hi > Len(HandlerSeq)
      THEN /\ stops' = [stops EXCEPT ![s] = [pc |-> "cleanup", hi |-> p.hi,
                                             keys |-> <<>>]]
           /\ ws' = ws
      ELSE LET c == Head(p.keys) IN
             IF c \notin Range(connections[HandlerSeq[p.hi]])
               THEN \* self.connections[client_id], line 166
                    /\ stops' = [stops EXCEPT ![s] = [pc |-> "KeyError",
                                   hi |-> p.hi, keys |-> Tail(p.keys)]]
                    /\ ws' = ws
               ELSE /\ stops' = [stops EXCEPT ![s] = [pc |-> "closing",
                                   hi |-> p.hi, keys |-> Tail(p.keys)]]
                    /\ ws' = CloseGoingAway(ws, c)

\* The idle timer elapses: _stop_server starts.
TimerFire(t) ==
  /\ srv = "serving"
  /\ timers[t] = "pending"
  /\ timers' = [timers EXCEPT ![t] = "fired"]
  /\ StopRun(t, 0, <<>>)
  /\ UNCHANGED <<budget, srv, shutdown_task, connVars, pc, inVars, pubVars,
                 outVars>>

\* AiohttpWslinkServer.stop (lines 98-99).
stop ==
  /\ srv = "serving"
  /\ stops[0].pc = "none"
  /\ budget.stops > 0
  /\ budget' = [budget EXCEPT !.stops = @ - 1]
  /\ StopRun(0, 0, <<>>)
  /\ UNCHANGED <<srv, shutdown_task, timers, connVars, pc, inVars, pubVars,
                 outVars>>

\* `await ws.close(...)` returns: disconnectClients goes on.
StopStep(s) ==
  /\ srv = "serving"
  /\ stops[s].pc = "closing"
  /\ StopRun(s, stops[s].hi, stops[s].keys)
  /\ UNCHANGED <<budget, srv, shutdown_task, timers, connVars, pc, inVars,
                 pubVars, outVars>>

\* `await runner.cleanup()` returns: running.set_result(True), line 46.
StopResolve(s) ==
  /\ srv = "serving"
  /\ stops[s].pc = "cleanup"
  /\ stops' = [stops EXCEPT ![s].pc = "done"]
  /\ srv' = "stopped"
  /\ UNCHANGED <<budget, shutdown_task, timers, connVars, pc, ws, inVars,
                 pubVars, outVars>>

\* ------------------------------------------------------------------ inputs

\* Keys a client may name in an attachment header.
InKeys == {"wslink_bin7"}

\* The keys attachment headers may declare: two that match the placeholder
\* pattern and one that does not.  Received attachments are held as a map
\* from these keys to the payload, 0 for a key that is not in the map.
RecvKeys == {"wslink_bin7", "wslink_bin8", "note"}

NoRpc == [has |-> {}, id |-> NoId, method |-> "", args |-> <<>>]

\* A binary frame of client c: its payload names its sender.
BinaryMsg(c) == [type |-> "BINARY", valid |-> TRUE, bytes |-> c, rpc |-> NoRpc]

\* A text frame that is not JSON.
NotJsonMsg == [type |-> "TEXT", valid |-> FALSE, bytes |-> 0, rpc |-> NoRpc]

TextMsg(rpc) == [type |-> "TEXT", valid |-> TRUE, bytes |-> 0, rpc |-> rpc]

\* Frames without id: attachment headers, and a frame of another method.
NoIdRpcs ==
  {[has |-> {"wslink", "method", "args"}, id |-> NoId,
    method |-> "wslink.binary.attachment", args |-> <<Str(k)>>] : k \in InKeys}
  \cup {[has |-> {"wslink", "method"}, id |-> NoId, method |-> "echo",
         args |-> <<>>]}

HelloArgs ==
  { <<>>, <<Dict({<<"secret", "S">>})>>, <<Dict({<<"secret", "X">>})>>,
    <<Dict({<<"user", "u">>})>>, <<Dict({})>>, <<Str("S")>> }

Request(id, method, args) ==
  [has |-> {"wslink", "id", "method", "args"}, id |-> id, method |-> method,
   args |-> args]

\* The requests client c may send next; its ids are its own and in sequence.
Requests(c) ==
  LET n == Len(reqs[c]) + 1 IN
    {Request(<<"system", c, n>>, "wslink.hello", a) : a \in HelloArgs}
    \cup {Request(<<"system", c, n>>, "echo", <<>>)}
    \cup {Request(<<"rpc", c, n>>, "no.such.method", <<>>)}
    \cup {Request(<<"rpc", c, n>>, "echo", a) :
            a \in {<<>>} \cup {<<Str(k)>> : k \in InKeys}}

\* Frames with an id that lack the wslink or the method field.
BrokenRequests(c) ==
  LET n == Len(reqs[c]) + 1 IN
    {[has |-> hs, id |-> <<"rpc", c, n>>, method |-> "echo", args |-> <<>>]
       : hs \in {{"id", "method"}, {"id", "wslink"}}}

\* Attachment headers that declare one key, or two keys at once.
FindHeaders ==
  {[has |-> {"wslink", "method", "args"}, id |-> NoId,
    method |-> "wslink.binary.attachment", args |-> a]
     : a \in {<<Str(k)>> : k \in RecvKeys}
             \cup {<<Str("wslink_bin7"), Str("wslink_bin8")>>}}

\* Argument values: strings, and lists and mappings that hold them, nested
\* up to two deep.
Leaves == {Str(k) : k \in RecvKeys}
Depth1 == Leaves \cup {List(<<x>>) : x \in Leaves}
Depth2 ==
  Depth1 \cup {List(<<Map(<<Str("wslink_bin7")>>)>>),
               Map(<<Str("wslink_bin7"), List(<<Str("wslink_bin8")>>)>>)}
FindArgs ==
  {<<>>} \cup {<<x>> : x \in Depth2}
         \cup {<<x, Str("wslink_bin7")>> : x \in Depth2}
FindKwargs ==
  {Map(<<>>), Map(<<Str("wslink_bin7"), List(<<Str("wslink_bin8")>>)>>)}

RequestKw(id, method, args, kwargs) ==
  [has |-> {"wslink", "id", "method", "args", "kwargs"}, id |-> id,
   method |-> method, args |-> args, kwargs |-> kwargs]

\* Requests with such arguments: for the registered method, for a method
\* that is not registered, and under a system id.
FindRequests(c) ==
  LET n == Len(reqs[c]) + 1 IN
    {RequestKw(<<"rpc", c, n>>, "echo", a, k) : a \in FindArgs, k \in FindKwargs}
    \cup {RequestKw(<<"rpc", c, n>>, "no.such.method", <<Str(k)>>, Map(<<>>))
            : k \in RecvKeys}
    \cup {RequestKw(<<"system", c, n>>, "echo", <<Str(k)>>, Map(<<>>))
            : k \in RecvKeys}

\* Keys addAttachment may hand out.
MaxAttach == 1
PubKeys == 0..MaxAttach

\* Data the protocol's code may return or publish: keys it was given by
\* addAttachment and that are in the attachment map may occur in it.
Contents == SUBSET pm.attachmentMap

\* ------------------------------------------------------------------ specs

InitWith(b) ==
  /\ budget = b
  /\ srv = "created"
  /\ shutdown_task = 0
  /\ timers = [t \in TimerIds |-> "unused"]
  /\ stops = [s \in StopIds |-> NoStop]
  /\ connections = [h \in Handlers |-> <<>>]
  /\ nextClient = 1
  /\ hOf = [c \in Clients |-> HandlerSeq[1]]
  /\ pc = [c \in Clients |-> "none"]
  /\ ws = [c \in Clients |-> "none"]
  /\ functionMap = [h \in Handlers |-> {}]
  /\ initCalls = [h \in Handlers |-> 0]
  /\ attachmentsReceived = [h \in Handlers |-> [k \in RecvKeys |-> 0]]
  /\ attachmentsRecvQueue = [h \in Handlers |-> <<>>]
  /\ pm = [protocols |-> [h \in Handlers |-> 0], attachmentMap |-> {},
           attachmentRefCounts |-> [k \in PubKeys |-> 0],
           attachmentId |-> 0, publishCount |-> 0]
  /\ tasks = {}
  /\ sact = [c \in Clients |-> NoSend]
  /\ wire = [c \in Clients |-> <<>>]
  /\ reqs = [c \in Clients |-> <<>>]
  /\ sessionQueue = [c \in Clients |-> <<>>]
  /\ passed = [c \in Clients |-> NoCall]
  /\ pubs = <<>>

\* Bounds of the scenarios.
MaxFrames == 2
MaxPublish == 1

\* The life of the server: connections come and go on every route, peers
\* send text that is not JSON, the idle timer elapses, stop is called.
LifeInit ==
  InitWith([connects |-> MaxConnects, frames |-> MaxFrames, stops |-> 1,
            attaches |-> 0, publishes |-> 0])

LifeNext ==
  \/ _on_startup
  \/ \E h \in Handlers : Connect(h)
  \/ \E c \in Clients : PrepareOk(c)
  \/ \E c \in Clients : PrepareFail(c)
  \/ \E c \in Clients : PeerClose(c)
  \/ \E c \in Clients : SessionEnd(c)
  \/ \E c \in Clients : OnMessage(c, NotJsonMsg)
  \/ \E t \in TimerIds : TimerFire(t)
  \/ stop
  \/ \E s \in StopIds : StopStep(s)
  \/ \E s \in StopIds : StopResolve(s)

LifeSpec == LifeInit /\ [][LifeNext]_vars

\* The event loop runs every coroutine that is ready, and a timer that is
\* not cancelled elapses.
LifeFairness ==
  /\ WF_vars(_on_startup)
  /\ \A t \in TimerIds : WF_vars(TimerFire(t))
  /\ \A s \in StopIds : WF_vars(StopStep(s))
  /\ \A s \in StopIds : WF_vars(StopResolve(s))
  /\ \A c \in Clients : WF_vars(SessionEnd(c))

FairLifeSpec == LifeSpec /\ LifeFairness

\* Requests and replies on the connections of one route, within the idle
\* timeout.
Init ==
  InitWith([connects |-> MaxConnects, frames |-> MaxFrames, stops |-> 0,
            attaches |-> MaxAttach, publishes |-> 0])

Next ==
  \/ _on_startup
  \/ Connect(HandlerSeq[1])
  \/ \E c \in Clients : PrepareOk(c)
  \/ \E c \in Clients : PeerClose(c)
  \/ \E c \in Clients : SessionEnd(c)
  \/ \E c \in Clients : OnMessage(c, BinaryMsg(c))
  \/ \E c \in Clients : OnMessage(c, NotJsonMsg)
  \/ \E c \in Clients : \E rpc \in NoIdRpcs : OnMessage(c, TextMsg(rpc))
  \/ \E c \in Clients : \E rpc \in Requests(c) : OnMessage(c, TextMsg(rpc))
  \/ \E c \in Clients : \E rpc \in BrokenRequests(c) :
       OnMessage(c, TextMsg(rpc))
  \/ \E c \in Clients : \E k \in Contents : InvokeDone(c, "return", k)
  \/ \E c \in Clients : InvokeDone(c, "unserializable", {})
  \/ \E c \in Clients : InvokeDone(c, "raise", {})
  \/ \E c \in Clients : SendResume(c)
  \/ addAttachment

Spec == Init /\ [][Next]_vars

\* Publishes and replies with attachments on the connections of all routes,
\* within the idle timeout.
PubFrames == 1

PubInit ==
  InitWith([connects |-> MaxConnects, frames |-> PubFrames, stops |-> 0,
            attaches |-> MaxAttach, publishes |-> MaxPublish])

PubNext ==
  \/ _on_startup
  \/ \E h \in Handlers : Connect(h)
  \/ \E c \in Clients : PrepareOk(c)
  \/ \E c \in Clients : PeerClose(c)
  \/ \E c \in Clients : SessionEnd(c)
  \/ \E c \in Clients : \E rpc \in Requests(c) : OnMessage(c, TextMsg(rpc))
  \/ \E c \in Clients : \E k \in Contents : InvokeDone(c, "return", k)
  \/ \E c \in Clients : SendResume(c)
  \/ addAttachment
  \/ \E h \in Handlers : \E c \in {0} \cup Range(connections[h]) :
       \E k \in Contents : publish(h, c, k)
  \/ \E t \in tasks : DeliveryStep(t)

PubSpec == PubInit /\ [][PubNext]_vars

\* Messages sent to all clients of a route at once, with attachments, while
\* the clients come and go.
CastInit ==
  InitWith([connects |-> MaxConnects, frames |-> 0, stops |-> 0,
            attaches |-> MaxAttach, publishes |-> MaxPublish])

CastNext ==
  \/ _on_startup
  \/ \E h \in Handlers : Connect(h)
  \/ \E c \in Clients : PrepareOk(c)
  \/ \E c \in Clients : PeerClose(c)
  \/ \E c \in Clients : SessionEnd(c)
  \/ addAttachment
  \/ \E h \in Handlers : \E k \in Contents : sendWrappedMessage(h, k)
  \/ \E t \in tasks : DeliveryStep(t)

CastSpec == CastInit /\ [][CastNext]_vars

\* One client declares keys, sends binary frames and then a request whose
\* arguments name the keys, at any depth.
FindConnects == 1
FindFrames == 4
FindCalls == 1

FindInit ==
  InitWith([connects |-> FindConnects, frames |-> FindFrames, stops |-> 0,
            attaches |-> 0, publishes |-> 0])

FindNext ==
  \/ _on_startup
  \/ Connect(HandlerSeq[1])
  \/ \E c \in Clients : PrepareOk(c)
  \/ \E c \in Clients : OnMessage(c, BinaryMsg(c))
  \/ \E c \in Clients : \E rpc \in FindHeaders : OnMessage(c, TextMsg(rpc))
  \/ \E c \in Clients :
       /\ Len(reqs[c]) < FindCalls
       /\ \E rpc \in FindRequests(c) : OnMessage(c, TextMsg(rpc))
  \/ \E c \in Clients : InvokeDone(c, "return", {})

FindSpec == FindInit /\ [][FindNext]_vars

\* -------------------------------------------------------------- properties

\* The replies (frames with "result" or "error") to request id on c's wire.
Replies(c, id) ==
  {j \in 1..Len(wire[c]) : wire[c][j].t = "json" /\ wire[c][j].id = id}

\* C1: every request with an id (system message, unregistered method,
\* method that returns, raises or returns what cannot be serialized) gets
\* exactly one reply with its id, on its own connection and on no other:
\* none while onMessage is still working on it, one once onMessage has
\* returned, and onMessage fails to return only when the transport of the
\* connection is no longer open.
C1_ExactlyOneReply ==
  \A c \in Clients : \A k \in 1..Len(reqs[c]) :
    LET r == reqs[c][k] IN
      /\ Cardinality(Replies(c, r.id)) <= 1
      /\ r.end = "pending" => Replies(c, r.id) = {}
      /\ r.end = "returned" => Cardinality(Replies(c, r.id)) = 1
      /\ r.end = "raised" => ws[c] # "open"
      /\ \A d \in Clients \ {c} : Replies(d, r.id) = {}

\* Two requests of one client, one of them to a method whose result cannot
\* be serialized, have both been answered.
C1_Witness ==
  \E c \in Clients :
    /\ Len(reqs[c]) = 2
    /\ \E k \in 1..2 : reqs[c][k].user = "unserializable"
    /\ \A k \in 1..2 : /\ reqs[c][k].end = "returned"
                       /\ Cardinality(Replies(c, reqs[c][k].id)) = 1

\* The sends in progress: of the replies and of the deliveries.
SendsInProgress ==
  {sact[c] : c \in Clients} \cup {t.a : t \in tasks}

\* C2: on every connection, a reply or publish that contains placeholder key
\* K comes after an attachment header naming K and, after that, a binary
\* frame carrying K's blob; and the reference count of K is positive while a
\* header/binary pair of K is being sent.
C2_AttachmentsPrecede ==
  /\ \A c \in Clients : \A j \in 1..Len(wire[c]) :
       wire[c][j].t = "json" =>
         \A k \in wire[c][j].keys :
           \E i1 \in 1..j : \E i2 \in 1..j :
             /\ i1 < i2
             /\ wire[c][i1] = HeaderFrame(k)
             /\ wire[c][i2] = BinaryFrame(k)
  /\ \A a \in SendsInProgress :
       a.stage = "bin" => pm.attachmentRefCounts[a.key] > 0

\* C3: a binary frame of a session takes the key at the head of the keys
\* that session declared (and did not use yet), or is dropped when there is
\* none: the received attachments change by that and by nothing else.
C3_OwnQueueOnly ==
  [][\A c \in Clients :
       OnMessage(c, BinaryMsg(c)) =>
         attachmentsReceived' =
           IF sessionQueue[c] = <<>>
             THEN attachmentsReceived
             ELSE [attachmentsReceived EXCEPT
                     ![hOf[c]][Head(sessionQueue[c])] = c]]_vars

\* Every client that ever connected is gone: its session has ended.
AllGone ==
  /\ nextClient > 1
  /\ \A c \in Clients : c < nextClient => pc[c] \in {"returned", "raised"}

\* C4: once every client that connected is gone, the server is on its way to
\* the stopped state: it has stopped, or a run of _stop_server is under way,
\* or an idle timer is armed that will start one.  (In a state without any
\* of these nothing is left that could ever stop the server.)
C4_StopsAfterLastClient ==
  (AllGone /\ srv = "serving") =>
     \/ \E t \in TimerIds : timers[t] = "pending"
     \/ \E s \in StopIds : stops[s].pc \in {"closing", "cleanup"}

\* C5: no idle-shutdown timer is armed while a client is connected.
C5_NoTimerWhileConnected ==
  \A t \in TimerIds :
    timers[t] = "pending" => \A c \in Clients : ws[c] # "open"

\* C6: if no client ever connects, the server stops.
C6_IdleShutdown == <>(srv = "stopped" \/ nextClient > 1)

\* The server was stopped by the timer armed at startup, with no client ever.
C6_Witness == srv = "stopped" /\ nextClient = 1 /\ stops[1].pc = "done"

\* C7: a run of _stop_server always gets to its final step: it is never
\* ended by an exception (the KeyError of a connection-table entry that went
\* away while disconnectClients waited for the close of another client)
\* before the runner is torn down and `running` is resolved.
C7_StopRunsToEnd ==
  \A s \in StopIds : stops[s].pc # "KeyError"

\* C8: a reply is written only on the connection of the client that sent
\* the request; a publish is written only on connections of the handler it
\* was issued on, and only on the connection of its client_id when it has
\* one; a publish without client_id reaches every client with an open
\* connection in the table of the handler: its frame is on the wire of each,
\* or its delivery is still to come, or the connection is no longer open.
IsPublish(f) == f.t = "json" /\ f.id # NoId /\ f.id[1] = "publish"
IsReply(f) == f.t = "json" /\ f.id # NoId /\ f.id[1] # "publish"

C8_Targeting ==
  /\ \A c \in Clients : \A j \in 1..Len(wire[c]) :
       LET f == wire[c][j] IN
         /\ IsReply(f) => f.id[2] = c
         /\ IsPublish(f) =>
              /\ pubs[f.id[3]].h = hOf[c]
              /\ pubs[f.id[3]].client_id \in {0, c}
  /\ \A p \in 1..Len(pubs) :
       pubs[p].client_id = 0 =>
         \A c \in pubs[p].audience :
           \/ \E j \in 1..Len(wire[c]) : wire[c][j].id = <<"publish", 0, p>>
           \/ \E t \in tasks : t.p = p /\ t.client = c /\ t.h = pubs[p].h
           \/ ws[c] # "open"

\* A publish without client_id is on the wire of a client of its handler
\* while a client of the other handler, connected all along, got nothing.
C8_Witness ==
  \E c \in Clients : \E d \in Clients :
    /\ hOf[c] # hOf[d]
    /\ ws[c] = "open" /\ ws[d] = "open"
    /\ Len(pubs) = 1 /\ pubs[1].client_id = 0 /\ pubs[1].audience = {c}
    /\ \E j \in 1..Len(wire[c]) : IsPublish(wire[c][j])
    /\ wire[d] = <<>>

\* C9: wslink.hello under a system id is answered by result
\* {clientID: "c" + client id} when args[0] is a mapping whose secret is the
\* configured one, and by error AUTHENTICATION_ERROR, "Authentication failed"
\* in every other case; and no system message is dispatched to a method.
C9_Hello ==
  [][\A c \in Clients :
       LET id == <<"system", c, Len(reqs[c]) + 1>> IN
         /\ \A a \in HelloArgs :
              OnMessage(c, TextMsg(Request(id, "wslink.hello", a))) =>
                /\ wire'[c] = Append(wire[c],
                     IF a # <<>> /\ a[1].t = "dict"
                          /\ <<"secret", "S">> \in a[1].d
                       THEN ResultFrame(id, <<"c", c>>, {})
                       ELSE ErrorFrame(id, AUTHENTICATION_ERROR,
                                       "Authentication failed"))
                /\ pc'[c] = "read"
         /\ OnMessage(c, TextMsg(Request(id, "echo", <<>>))) =>
              pc'[c] = "read" /\ attachmentsReceived' = attachmentsReceived
     ]_vars

\* One client was told its client id and another that it failed to
\* authenticate.
C9_Witness ==
  \E c \in Clients : \E d \in Clients :
    /\ wire[c] = <<ResultFrame(<<"system", c, 1>>, <<"c", c>>, {})>>
    /\ wire[d] = <<ErrorFrame(<<"system", d, 1>>, AUTHENTICATION_ERROR,
                              "Authentication failed")>>

\* C10: a method that raises does not end the session.  At the step in which
\* the exception reaches onMessage on an open connection, the error
\* EXCEPTION_ERROR, "Exception raised" with the id of the request is written
\* on the connection, onMessage returns to the read loop, and the connection
\* stays open and in the connection table; and in every state the request is
\* then answered by that error only, and a later request of the session that
\* onMessage has finished with is answered once.
C10_Answered ==
  \A c \in Clients : \A k \in 1..Len(reqs[c]) :
    (reqs[c][k].user = "raise" /\ ws[c] = "open") =>
      /\ reqs[c][k].end = "returned"
      /\ \A j \in Replies(c, reqs[c][k].id) :
           /\ wire[c][j].kind = "error"
           /\ wire[c][j].code = EXCEPTION_ERROR
           /\ wire[c][j].message = "Exception raised"
      /\ Cardinality(Replies(c, reqs[c][k].id)) = 1
      /\ \A k2 \in (k + 1)..Len(reqs[c]) :
           reqs[c][k2].end = "returned" =>
             Cardinality(Replies(c, reqs[c][k2].id)) = 1

C10_RaiseKeepsSession ==
  /\ []C10_Answered
  /\ [][\A c \in Clients :
          (InvokeDone(c, "raise", {}) /\ ws[c] = "open") =>
             /\ wire'[c] = Append(wire[c],
                  ErrorFrame(reqs[c][Len(reqs[c])].id, EXCEPTION_ERROR,
                             "Exception raised"))
             /\ pc'[c] = "read"
             /\ ws'[c] = "open"
             /\ connections' = connections
             /\ functionMap' = functionMap]_vars

\* After a method raised, the next request of the same client was answered.
C10_Witness ==
  \E c \in Clients :
    /\ Len(reqs[c]) = 2
    /\ reqs[c][1].user = "raise"
    /\ reqs[c][2].end = "returned"
    /\ Cardinality(Replies(c, reqs[c][2].id)) = 1
    /\ ws[c] = "open"

\* C11: a malformed text frame (text that is not JSON, or JSON with an id
\* but without `method` or `wslink`) is dropped silently: nothing is written
\* on any connection, the queues, the received attachments and the
\* connection tables stay as they are, the session is back in its read loop,
\* and no other session changes.
C11_MalformedDropped ==
  [][\A c \in Clients :
       \A msg \in {NotJsonMsg} \cup {TextMsg(r) : r \in BrokenRequests(c)} :
         OnMessage(c, msg) =>
           /\ wire' = wire
           /\ attachmentsRecvQueue' = attachmentsRecvQueue
           /\ attachmentsReceived' = attachmentsReceived
           /\ connections' = connections
           /\ pc'[c] = "read"
           /\ \A d \in Clients \ {c} : pc'[d] = pc[d] /\ ws'[d] = ws[d]]_vars

\* C12: on every connection an attachment header is followed at once by the
\* binary frame of its key: no frame of another send comes between the two.
C12_HeaderThenBinary ==
  \A c \in Clients : \A j \in 1..Len(wire[c]) :
    (wire[c][j].t = "hdr" /\ j < Len(wire[c])) =>
       wire[c][j + 1] = BinaryFrame(wire[c][j].key)

\* C13: while the method called for a request of a connection is suspended,
\* the read loop of the connection takes the next inbound frame (here a
\* binary frame, an attachment header or a later request) when one arrives.
C13_ReadsWhileInvoking ==
  \A c \in Clients :
    (srv = "serving" /\ pc[c] = "invoke" /\ ws[c] = "open"
       /\ budget.frames > 0) =>
      /\ ENABLED OnMessage(c, BinaryMsg(c))
      /\ \A r \in NoIdRpcs \cup Requests(c) : ENABLED OnMessage(c, TextMsg(r))

\* C14: the registry is built once: init() is called on a handler's protocol
\* object at the first connect to the handler and never again, and the
\* function map is as the first connect left it.
C14_RegistryBuiltOnce ==
  \A h \in Handlers :
    /\ initCalls[h] = IF functionMap[h] = {} THEN 0 ELSE 1
    /\ functionMap[h] \in {{}, Uris}

\* The sessions of handler h have all ended by a close of the connection
\* (there may have been none).
AllClosed(h) ==
  \A c \in Clients : (c < nextClient /\ hOf[c] = h) => pc[c] = "returned"

\* C15: inbound attachment state does not outlive its connection: when the
\* connections of a handler have all ended, no key waits in the handler's
\* inbound queue and no received attachment is stored, so nothing is left
\* for a client that connects later.
C15_NoInboundStateLeft ==
  \A h \in Handlers :
    AllClosed(h) =>
      /\ attachmentsRecvQueue[h] = <<>>
      /\ \A k \in InKeys : attachmentsReceived[h][k] = 0

\* C16: a message sent to all clients of a handler reaches every one of
\* them whose connection is open, whatever happens to the send to another
\* client: once the send has ended, the message is on the wire of every
\* client that was in the table with an open connection when the send
\* started and whose connection is still open.
C16_FanOutSurvivesFailure ==
  \A p \in 1..Len(pubs) :
    (pubs[p].client_id = 0 /\ ~ \E t \in tasks : t.p = p) =>
       \A c \in pubs[p].audience :
         ws[c] = "open" =>
           \E j \in 1..Len(wire[c]) : wire[c][j].id = <<"publish", 0, p>>

\* C17: a client id is in a connection table only while its session is under
\* way: its upgrade has succeeded and its session has not ended, by a close
\* or by an exception.
C17_TableEntryLifetime ==
  \A h \in Handlers : \A c \in Range(connections[h]) :
    /\ hOf[c] = h
    /\ pc[c] \in {"read", "invoke", "send"}
    /\ ws[c] # "created"

\* The strings (and bytes) of a value in the order of the text, and the
\* value with its strings blanked.
RECURSIVE Flat(_)
Flat(o) ==
  IF o.t \in {"list", "dict"}
    THEN IF o.kids = <<>> THEN <<>>
         ELSE Flat(Head(o.kids)) \o Flat([o EXCEPT !.kids = Tail(@)])
    ELSE <<o>>

RECURSIVE Shape(_)
Shape(o) ==
  IF o.t \in {"list", "dict"}
    THEN [o EXCEPT !.kids = [i \in 1..Len(o.kids) |-> Shape(o.kids[i])]]
    ELSE Str("")

\* C18: when a request for a registered method is dispatched, the method
\* gets the arguments of the request (args, then kwargs) with every string,
\* at any depth, that matches ^wslink_bin\d+$ and is a key of the received
\* attachments replaced by the bytes stored under it, at the first place
\* the key occurs only; every such key is removed from the received
\* attachments, and the other keys and the other strings stay.  A request
\* for a method that is not registered, or under a system id, leaves the
\* received attachments as they are.
C18_FindAttachments ==
  [][\A c \in Clients : \A rpc \in FindRequests(c) :
       OnMessage(c, TextMsg(rpc)) =>
         LET recv == attachmentsReceived[hOf[c]]
             in == Flat(List(rpc.args)) \o Flat(rpc.kwargs)
             out == Flat(passed'[c].args) \o Flat(passed'[c].kwargs)
             Hit(i) == /\ in[i].s \in {"wslink_bin7", "wslink_bin8"}
                       /\ recv[in[i].s] # 0
         IN IF rpc.id[1] = "rpc" /\ rpc.method = "echo"
              THEN /\ passed'[c].on
                   /\ Shape(passed'[c].args) = Shape(List(rpc.args))
                   /\ Shape(passed'[c].kwargs) = Shape(rpc.kwargs)
                   /\ Len(out) = Len(in)
                   /\ \A i \in 1..Len(in) :
                        out[i] = IF Hit(i) /\ \A j \in 1..(i - 1) :
                                               in[j].s # in[i].s
                                   THEN Bytes(recv[in[i].s])
                                   ELSE in[i]
                   /\ \A k \in RecvKeys :
                        attachmentsReceived'[hOf[c]][k] =
                          IF \E i \in 1..Len(in) : Hit(i) /\ in[i].s = k
                            THEN 0 ELSE recv[k]
              ELSE /\ attachmentsReceived' = attachmentsReceived
                   /\ passed' = passed]_vars

\* A method is called with the bytes of wslink_bin7 two levels deep in its
\* first argument and the literal string at the second place the key
\* occurs, while wslink_bin8 stays in the received attachments.
C18_Witness ==
  \E c \in Clients :
    /\ pc[c] = "invoke"
    /\ passed[c].args =
         List(<<List(<<Map(<<Bytes(c)>>)>>), Str("wslink_bin7")>>)
    /\ attachmentsReceived[hOf[c]]["wslink_bin7"] = 0
    /\ attachmentsReceived[hOf[c]]["wslink_bin8"] # 0

\* C19: the server is stopped at most once.  Once a run of _stop_server has
\* begun no idle timer is armed (none is left armed and none is armed
\* again by the disconnects of the stop), and at most one run of
\* _stop_server gets as far as resolving `running`.
C19_StoppedAtMostOnce ==
  /\ (\E s \in StopIds : stops[s].pc # "none") =>
       \A t \in TimerIds : timers[t] # "pending"
  /\ Cardinality({s \in StopIds : stops[s].pc \in {"cleanup", "done"}}) <= 1

\* C20: sendWrappedMessage leaves the reference counts as it found them,
\* also when a transport write raises between registerAttachment and
\* unregisterAttachment: when no send is in progress every reference count
\* is zero, and every key that occurs in a message that was sent is gone
\* from the publish attachment map.
C20_RefCountsBalanced ==
  (tasks = {} /\ \A c \in Clients : sact[c] = NoSend) =>
    /\ \A k \in PubKeys : pm.attachmentRefCounts[k] = 0
    /\ \A c \in Clients : \A j \in 1..Len(wire[c]) :
         wire[c][j].t = "json" =>
           \A k \in wire[c][j].keys : k \notin pm.attachmentMap

====
